---- MODULE Spec2Model ----
(***************************************************************************)
(* A model of the arg_parse crate (src/src/lib.rs): the Arg and App        *)
(* declarations and App::parse_internal, the single-pass parser.           *)
(*                                                                         *)
(* An App is declared once (Init), then parse_internal is called on it     *)
(* repeatedly with argument vectors assembled token by token.  The         *)
(* `completed` flag of every Arg is part of the state and survives from    *)
(* one call to the next, exactly as the field of the struct does.          *)
(***************************************************************************)
EXTENDS Integers, Sequences, FiniteSets, TLC

\* ---------------------------------------------------------------- bounds
MaxReq == 2      \* most required positional names an App declares
MaxOpt == 1      \* most optional positional names an App declares
MaxLen == 4      \* longest argument vector, executable path included

\* ------------------------------------------------------------ Option<T>
None == <<>>
Some(v) == <<v>>
IsSome(o) == o # None
Unwrap(o) == o[1]

\* ------------------------------------------------- HashMap<String,String>
EmptyMap == [k \in {} |-> ""]
Insert(m, k, v) == [x \in (DOMAIN m) \cup {k} |-> IF x = k THEN v ELSE m[x]]

\* ------------------------------------------------------------------- Arg
ArgNew(name) ==
    [name |-> name, short |-> None, long |-> None, environment |-> None,
     accepts_value |-> FALSE, required |-> FALSE, completed |-> FALSE,
     default |-> None]

add_short(arg, s) ==
    IF IsSome(arg.short)
    THEN [arg EXCEPT !.short = Some(Append(Unwrap(arg.short), s))]
    ELSE [arg EXCEPT !.short = Some(<<s>>)]

add_long(arg, l) ==
    IF IsSome(arg.long)
    THEN [arg EXCEPT !.long = Some(Append(Unwrap(arg.long), l))]
    ELSE [arg EXCEPT !.long = Some(<<l>>)]

accepts_value(arg) == [arg EXCEPT !.accepts_value = TRUE]

set_default(arg, d) == [arg EXCEPT !.default = Some(d), !.required = FALSE]

environment(arg, v) == [arg EXCEPT !.environment = Some(v)]

\* No builder of the crate sets `required`; code of the crate (to which
\* parse_internal itself is private) writes the field of the struct.
with_required(arg) == [arg EXCEPT !.required = TRUE]

set_completed(arg) == [arg EXCEPT !.completed = TRUE]

is_completed_never(arg) == FALSE

is_completed(arg) == arg.completed

is_done(arg) == arg.completed \/ ~arg.required

matches(arg, input) ==
    \/ IsSome(arg.short) /\ \E i \in 1..Len(Unwrap(arg.short)) : Unwrap(arg.short)[i] = input
    \/ IsSome(arg.long) /\ \E i \in 1..Len(Unwrap(arg.long)) : Unwrap(arg.long)[i] = input

\* ------------------------------------------------------------------- App
\* Index of the first declared Arg that matches, 0 for Option::None.
match_arg(as, input) ==
    LET hits == {i \in 1..Len(as) : matches(as[i], input)} IN
    IF hits = {} THEN 0 ELSE CHOOSE i \in hits : \A j \in hits : i <= j

check_arg(as, input) == \E i \in 1..Len(as) : matches(as[i], input)

clear_args(as) == [i \in 1..Len(as) |-> [as[i] EXCEPT !.completed = FALSE]]

\* ----------------------------------------------------------------- Error
\* Result<HashMap<String,String>, Error> as one record shape; `at` is the
\* position in the argument vector of the token whose iteration returned
\* (0 when the return is after the loop).
NoResult == [kind |-> "None", output |-> EmptyMap, str |-> "", names |-> <<>>, at |-> 0]
Ok(m) == [kind |-> "Ok", output |-> m, str |-> "", names |-> <<>>, at |-> 0]
TooFewArguments == [kind |-> "TooFewArguments", output |-> EmptyMap, str |-> "", names |-> <<>>, at |-> 0]
TooManyArguments(t, p) == [kind |-> "TooManyArguments", output |-> EmptyMap, str |-> t, names |-> <<>>, at |-> p]
MissingArgumentValue(n, p) == [kind |-> "MissingArgumentValue", output |-> EmptyMap, str |-> n, names |-> <<>>, at |-> p]
DuplicateArgument(n, p) == [kind |-> "DuplicateArgument", output |-> EmptyMap, str |-> n, names |-> <<>>, at |-> p]
RequiredArgumentMissing(ns) == [kind |-> "RequiredArgumentMissing", output |-> EmptyMap, str |-> "", names |-> ns, at |-> 0]
\* `attempt to subtract with overflow`: the thread unwinds out of the call.
Panic == [kind |-> "Panic", output |-> EmptyMap, str |-> "", names |-> <<>>, at |-> 0]

\* --------------------------------------------------- std::env::var(..).is_ok()
\* A variable is unset, set to valid Unicode, or set to bytes that are not
\* valid Unicode; env::var is Ok only in the second case.
EnvStates == {"unset", "unicode", "not_unicode"}
env_var_is_ok(envp, v) == v \in DOMAIN envp /\ envp[v] = "unicode"

\* ------------------------------------------------------- parse_internal
\* The state of the loop: the Args (with their completed flags), the
\* position of the peekable iterator (index of the next unread token), the
\* output map, the two positional counters, and the early return if any.

\* lines 309-319: the matched Arg accepts a value; st.pos is the peeked token.
ValueStepNoDefault(st, arg, toks) ==
    IF st.pos <= Len(toks)
    THEN IF ~check_arg(st.args, toks[st.pos])
         THEN [st EXCEPT !.output = Insert(@, arg.name, toks[st.pos]), !.pos = @ + 1]
         ELSE st
    ELSE [st EXCEPT !.ret = MissingArgumentValue(arg.name, st.pos - 1)]

ValueStep(st, arg, toks) ==
    IF st.pos <= Len(toks)
    THEN IF ~check_arg(st.args, toks[st.pos])
         THEN [st EXCEPT !.output = Insert(@, arg.name, toks[st.pos]), !.pos = @ + 1]
         ELSE st
    ELSE IF IsSome(arg.default)
         THEN [st EXCEPT !.output = Insert(@, arg.name, Unwrap(arg.default))]
         ELSE [st EXCEPT !.ret = MissingArgumentValue(arg.name, st.pos - 1)]

\* lines 301-322: the token at st.pos matched the Arg at index idx.
FlagStep(st, idx, toks) ==
    LET arg == st.args[idx] IN
    IF is_completed(arg)
    THEN [st EXCEPT !.ret = DuplicateArgument(arg.name, st.pos)]
    ELSE LET st2 == [st EXCEPT !.args[idx] = set_completed(arg), !.pos = @ + 1] IN
         IF arg.accepts_value
         THEN ValueStep(st2, arg, toks)
         ELSE [st2 EXCEPT !.output = Insert(@, arg.name, "true")]

\* lines 323-331: the token matched no Arg.
UntaggedStepSwapped(st, input, req, opt) ==
    IF st.untagged_opt < Len(opt)
    THEN [st EXCEPT !.output = Insert(@, opt[st.untagged_opt + 1], input),
                    !.untagged_opt = @ + 1, !.pos = @ + 1]
    ELSE IF st.untagged_req < Len(req)
    THEN [st EXCEPT !.output = Insert(@, req[st.untagged_req + 1], input),
                    !.untagged_req = @ + 1, !.pos = @ + 1]
    ELSE [st EXCEPT !.ret = TooManyArguments(input, st.pos)]

UntaggedStep(st, input, req, opt) ==
    IF st.untagged_req < Len(req)
    THEN [st EXCEPT !.output = Insert(@, req[st.untagged_req + 1], input),
                    !.untagged_req = @ + 1, !.pos = @ + 1]
    ELSE IF st.untagged_opt < Len(opt)
    THEN [st EXCEPT !.output = Insert(@, opt[st.untagged_opt + 1], input),
                    !.untagged_opt = @ + 1, !.pos = @ + 1]
    ELSE [st EXCEPT !.ret = TooManyArguments(input, st.pos)]

\* line 300: while let Some(input) = args.next()
RECURSIVE Consume(_, _, _, _)
Consume(st, req, opt, toks) ==
    IF st.ret # NoResult \/ st.pos > Len(toks)
    THEN st
    ELSE LET input == toks[st.pos]
             idx == match_arg(st.args, input)
         IN  Consume(IF idx # 0 THEN FlagStep(st, idx, toks)
                     ELSE UntaggedStep(st, input, req, opt),
                     req, opt, toks)

\* line 334: (self.untagged_args_req.len() - 1) as i32.  The subtraction is
\* on usize: it wraps to usize::MAX when the length is 0 and overflow checks
\* are off, and the cast keeps the low 32 bits, which read as -1.  For the
\* lengths of the model the cast of the wrapped difference is a - b.
WrappingSubAsI32(a, b) == a - b

SubOverflows(a, b) == a < b

\* lines 338-357: the environment pass, in declaration order.
RECURSIVE EnvPass(_, _, _, _)
EnvPass(as, output, envp, i) ==
    IF i > Len(as)
    THEN [args |-> as, output |-> output]
    ELSE LET arg == as[i] IN
         IF ~arg.completed /\ IsSome(arg.environment)
            /\ env_var_is_ok(envp, Unwrap(arg.environment))
         THEN EnvPass([as EXCEPT ![i].completed = TRUE],
                      Insert(output, arg.name,
                             IF IsSome(arg.default) THEN Unwrap(arg.default) ELSE "true"),
                      envp, i + 1)
         ELSE EnvPass(as, output, envp, i + 1)

\* lines 359-371: the names of the required Args that are not done.
RECURSIVE required_missing(_, _)
required_missing(as, i) ==
    IF i > Len(as)
    THEN <<>>
    ELSE IF as[i].required /\ ~is_done(as[i])
         THEN <<as[i].name>> \o required_missing(as, i + 1)
         ELSE required_missing(as, i + 1)

\* lines 374-387: the default-filling pass.
DefaultPassSkip(as, output, i) == [args |-> as, output |-> output]

RECURSIVE DefaultPass(_, _, _)
DefaultPass(as, output, i) ==
    IF i > Len(as)
    THEN [args |-> as, output |-> output]
    ELSE LET arg == as[i] IN
         IF ~is_completed(arg) /\ IsSome(arg.default)
         THEN DefaultPass([as EXCEPT ![i].completed = TRUE],
                          Insert(output, arg.name, Unwrap(arg.default)), i + 1)
         ELSE DefaultPass(as, output, i + 1)

\* lines 286-392.  Returns the Result and the Args as the call leaves them.
ParseInternal(as, req, opt, envp, oc, toks) ==
    LET path == IF Len(toks) >= 1 THEN toks[1] ELSE ".\\"
        st0 == [args |-> as, pos |-> 2, output |-> Insert(EmptyMap, "path", path),
                untagged_req |-> 0, untagged_opt |-> 0, ret |-> NoResult]
        st1 == Consume(st0, req, opt, toks)
        e == EnvPass(st1.args, st1.output, envp, 1)
        missing == required_missing(e.args, 1)
        d == DefaultPass(e.args, e.output, 1)
    IN  IF st1.ret # NoResult
        THEN [ret |-> st1.ret, args |-> st1.args]
        ELSE IF oc /\ SubOverflows(Len(req), 1)
        THEN [ret |-> Panic, args |-> st1.args]
        ELSE IF st1.untagged_req < WrappingSubAsI32(Len(req), 1)
        THEN [ret |-> TooFewArguments, args |-> st1.args]
        ELSE IF missing # <<>>
        THEN [ret |-> RequiredArgumentMissing(missing), args |-> e.args]
        ELSE [ret |-> Ok(d.output), args |-> clear_args(d.args)]

\* ------------------------------------------------------- the declarations
\* The Args of generate_test_app (tests.rs), built with the builders.
TestArg2 == add_long(add_short(ArgNew("TestArg2"), "-f"), "-flag")
HasValue == accepts_value(add_short(ArgNew("HasValue"), "-v"))
HasDefault == set_default(accepts_value(add_short(ArgNew("HasDefault"), "-d")), "Default Value")

\* Args that use the fields the test app leaves alone: environment, required.
ReqFlag == with_required(environment(add_short(ArgNew("ReqFlag"), "-f"), "EV"))
ReqValue == with_required(accepts_value(add_short(ArgNew("ReqValue"), "-v")))
EnvDefault == environment(set_default(accepts_value(add_short(ArgNew("EnvDefault"), "-d")), "Default Value"), "EV")

\* The Arg lists an App is declared with (App::arg, in this order).
ArgLists ==
    { <<TestArg2, HasValue, HasDefault>>,
      <<TestArg2, HasDefault>>,
      <<HasValue, EnvDefault>>,
      <<ReqFlag, ReqValue>> }

\* The variables the Args of a declaration name: no other is ever read.
EnvNamesOf(as) == {Unwrap(as[i].environment) : i \in {j \in 1..Len(as) : IsSome(as[j].environment)}}

\* untagged_required_arg / untagged_optional_arg called n times.
ReqNames(n) == [i \in 1..n |-> "req" \o ToString(i)]
OptNames(n) == [i \in 1..n |-> "opt" \o ToString(i)]

\* What a caller may put in an argument vector: the path first, then any
\* declared alias or a token that matches none.
PathTokens == {"prog"}
Values == {"x", "y"}
AliasesOf(arg) ==
    (IF IsSome(arg.short) THEN {Unwrap(arg.short)[i] : i \in 1..Len(Unwrap(arg.short))} ELSE {})
    \cup (IF IsSome(arg.long) THEN {Unwrap(arg.long)[i] : i \in 1..Len(Unwrap(arg.long))} ELSE {})
Tokens(as) == UNION {AliasesOf(as[i]) : i \in 1..Len(as)} \cup Values

\* ------------------------------------------------------------------ state
VARIABLES
    args,                \* App.args, each Arg with its completed flag
    untagged_args_req,   \* App.untagged_args_req
    untagged_args_opt,   \* App.untagged_args_opt
    environ,             \* the process environment
    overflow_checks,     \* whether the build checks arithmetic overflow
    demo_input,          \* the argument vector of the current call
    entry,               \* the Args as they were when the current call began
    result               \* what the current call returned, NoResult before it

vars == <<args, untagged_args_req, untagged_args_opt, environ, overflow_checks,
          demo_input, entry, result>>

decl == <<args, untagged_args_req, untagged_args_opt, environ, overflow_checks>>

Init ==
    /\ args \in ArgLists
    /\ \E n \in 0..MaxReq : untagged_args_req = ReqNames(n)
    /\ \E n \in 0..MaxOpt : untagged_args_opt = OptNames(n)
    /\ environ \in [EnvNamesOf(args) -> EnvStates]
    /\ overflow_checks \in BOOLEAN
    /\ demo_input = <<>>
    /\ entry = args
    /\ result = NoResult

\* The caller assembles the argument vector: the path, then the tokens.
PushToken ==
    /\ result = NoResult
    /\ Len(demo_input) < MaxLen
    /\ \E t \in (IF demo_input = <<>> THEN PathTokens ELSE Tokens(args)) :
          demo_input' = Append(demo_input, t)
    /\ UNCHANGED <<decl, entry, result>>

\* app.parse_internal(demo_input.into_iter())
parse_internal ==
    /\ result = NoResult
    /\ LET r == ParseInternal(args, untagged_args_req, untagged_args_opt,
                              environ, overflow_checks, demo_input)
       IN  /\ result' = r.ret
           /\ args' = r.args
    /\ UNCHANGED <<untagged_args_req, untagged_args_opt, environ, overflow_checks,
                   demo_input, entry>>

\* The caller goes on to the next call on the same App (a panic ends the run).
NextCall ==
    /\ result # NoResult
    /\ result.kind # "Panic"
    /\ demo_input' = <<>>
    /\ entry' = args
    /\ result' = NoResult
    /\ UNCHANGED decl

Next == PushToken \/ parse_internal \/ NextCall

Spec == Init /\ [][Next]_vars

TypeOK ==
    /\ result.kind \in {"None", "Ok", "TooFewArguments", "TooManyArguments",
                        "MissingArgumentValue", "DuplicateArgument",
                        "RequiredArgumentMissing", "Panic"}
    /\ Len(demo_input) <= MaxLen

\* ------------------------------------------------- vocabulary of the claims
\* A call has returned (or panicked) on demo_input.
Finished == result # NoResult

Returned == Finished /\ result.kind # "Panic"

N == Len(demo_input)

\* The declared Arg the i-th token resolves to (0: none).
Resolve(i) == match_arg(args, demo_input[i])

\* The loop got as far as reading the i-th token.
Reached(i) == result.at = 0 \/ result.at >= i

\* The loop read every token without returning.
Exhausted == result.at = 0

\* The i-th token was taken as the value of the flag before it.
IsValue(i) ==
    /\ i >= 3
    /\ Resolve(i - 1) # 0
    /\ args[Resolve(i - 1)].accepts_value
    /\ ~check_arg(args, demo_input[i])

\* The i-th token is neither a flag nor a flag's value.
IsFree(i) == i >= 2 /\ ~check_arg(args, demo_input[i]) /\ ~IsValue(i)

\* Their positions, in order: Free[k] is the position of the k-th one.
Free == SelectSeq([i \in 1..N |-> i], IsFree)

Slots == untagged_args_req \o untagged_args_opt

\* No token of the call matches an alias of the Arg at index a.
Unmatched(a) == \A i \in 2..N : ~matches(args[a], demo_input[i])

Bound(k, v) == k \in DOMAIN result.output /\ result.output[k] = v

\* The call began with no Arg marked completed, as on a freshly built App.
FreshEntry == \A a \in 1..Len(entry) : ~entry[a].completed

\* No value-accepting flag of the call is directly followed by a flag (the
\* case of C2).
NoFlagAfterValueFlag ==
    \A i \in 2..(N - 1) :
        ~(Resolve(i) # 0 /\ args[Resolve(i)].accepts_value /\ check_arg(args, demo_input[i + 1]))

\* ---------------------------------------------------------------------- C1
\* C1: when parse_internal returns, Ok or Err, every Arg's completed flag is
\* false again, so the call returned what a freshly built App returns.
C1_ResetOnEveryReturn ==
    Returned =>
        /\ \A i \in 1..Len(args) : ~args[i].completed
        /\ result = ParseInternal(clear_args(entry), untagged_args_req, untagged_args_opt,
                                  environ, overflow_checks, demo_input).ret

\* ---------------------------------------------------------------------- C2
\* C2: a value-accepting Arg's token followed by a token that matches a
\* declared alias binds the Arg's default, or fails with
\* MissingArgumentValue(name) when the Arg has no default.
C2_FlagAfterValueFlag ==
    Finished =>
        \A i \in 2..(N - 1) :
            LET a == Resolve(i) IN
            (/\ a # 0
             /\ args[a].accepts_value
             /\ ~entry[a].completed
             /\ \A j \in 2..(i - 1) : Resolve(j) # a
             /\ check_arg(args, demo_input[i + 1])
             /\ Reached(i))
            => IF IsSome(args[a].default)
               THEN result.kind = "Ok" => Bound(args[a].name, Unwrap(args[a].default))
               ELSE result.kind = "MissingArgumentValue" /\ result.str = args[a].name

\* ---------------------------------------------------------------------- C3
\* C3 as stated: two tokens of the stream that match the same Arg make the
\* call return DuplicateArgument(that Arg's name), wherever they are.
\* Stated for a call on an App in its freshly built state.
C3_DuplicateAnywhere ==
    (Finished /\ FreshEntry) =>
        \A j \in 3..N : \A i \in 2..(j - 1) :
            (Resolve(i) # 0 /\ Resolve(i) = Resolve(j))
            => result.kind = "DuplicateArgument" /\ result.str = args[Resolve(j)].name

\* C3 amended: when the loop reaches a token that resolves to the Arg an
\* earlier token (after the path) resolved to, the call returns
\* DuplicateArgument(that Arg's name) at that token.
C3_DuplicateWhenReached ==
    Finished =>
        \A j \in 3..N :
            (Reached(j) /\ Resolve(j) # 0 /\ \E i \in 2..(j - 1) : Resolve(i) = Resolve(j))
            => /\ result.kind = "DuplicateArgument"
               /\ result.str = args[Resolve(j)].name
               /\ result.at = j

\* Two different aliases of one Arg, not next to each other, rejected.
C3_Witness ==
    /\ result.kind = "DuplicateArgument"
    /\ \E j \in 4..N : \E i \in 2..(j - 2) :
          /\ Resolve(i) # 0 /\ Resolve(i) = Resolve(j)
          /\ demo_input[i] # demo_input[j]
          /\ result.at = j

\* ---------------------------------------------------------------------- C4
\* C4: the stream exhausted without error with fewer required positional
\* slots filled than declared makes the call fail with TooFewArguments.
C4_TooFewArguments ==
    (Returned /\ N >= 1 /\ Exhausted /\ Len(Free) < Len(untagged_args_req))
    => result.kind = "TooFewArguments"

C6_PositionalOrder ==
    (Finished /\ N >= 1) =>
        LET free == Free IN
        /\ result.kind = "Ok" =>
              /\ Len(free) <= Len(Slots)
              /\ \A k \in 1..Len(free) : Bound(Slots[k], demo_input[free[k]])
        /\ (Len(free) > Len(Slots) /\ Reached(free[Len(Slots) + 1])) =>
              /\ result.kind = "TooManyArguments"
              /\ result.str = demo_input[free[Len(Slots) + 1]]
              /\ result.at = free[Len(Slots) + 1]

\* A required and an optional slot filled by two different tokens that a
\* flag separates.
C6_Witness ==
    /\ result.kind = "Ok"
    /\ Len(untagged_args_req) = 1 /\ Len(untagged_args_opt) = 1
    /\ Len(Free) = 2
    /\ Free[2] > Free[1] + 1
    /\ demo_input[Free[1]] # demo_input[Free[2]]
    /\ Bound(untagged_args_opt[1], demo_input[Free[2]])

\* ---------------------------------------------------------------------- C7
\* The last token resolves to a value-accepting Arg and the loop reads it.
LastIsValueFlag ==
    /\ Finished
    /\ N >= 2
    /\ Resolve(N) # 0
    /\ args[Resolve(N)].accepts_value
    /\ Reached(N)

\* C7 as stated: a value-accepting Arg's token that ends the stream binds
\* the Arg's default, or fails with MissingArgumentValue(name) without one.
\* Stated for a call on an App in its freshly built state, on a stream
\* without the case of C2.
C7_ValueFlagLast ==
    (LastIsValueFlag /\ FreshEntry /\ NoFlagAfterValueFlag) =>
        LET arg == args[Resolve(N)] IN
        IF IsSome(arg.default)
        THEN /\ result.kind \notin {"DuplicateArgument", "MissingArgumentValue"}
             /\ result.kind = "Ok" => Bound(arg.name, Unwrap(arg.default))
        ELSE result.kind = "MissingArgumentValue" /\ result.str = arg.name

\* C7 amended: the same, for an Arg that is not already marked completed
\* when its token is read (by an earlier token of the stream, or left so by
\* an earlier call that failed).
C7_ValueFlagLastNotCompleted ==
    (/\ LastIsValueFlag
     /\ ~entry[Resolve(N)].completed
     /\ \A i \in 2..(N - 1) : Resolve(i) # Resolve(N))
    => LET arg == args[Resolve(N)] IN
       IF IsSome(arg.default)
       THEN /\ result.kind \notin {"DuplicateArgument", "MissingArgumentValue"}
            /\ result.kind = "Ok" => Bound(arg.name, Unwrap(arg.default))
       ELSE /\ result.kind = "MissingArgumentValue"
            /\ result.str = arg.name
            /\ result.at = N

\* ["prog", "req", "--default"]: the default is bound.
C7_Witness ==
    /\ LastIsValueFlag
    /\ N >= 3
    /\ IsSome(args[Resolve(N)].default)
    /\ result.kind = "Ok"
    /\ Bound(args[Resolve(N)].name, Unwrap(args[Resolve(N)].default))

\* ---------------------------------------------------------------------- C8
\* C8: an Arg with a default that no token matches and whose environment
\* variable is absent is bound to its default by every successful call.
C8_DefaultWhenNotSupplied ==
    (Finished /\ result.kind = "Ok") =>
        \A a \in 1..Len(args) :
            (/\ IsSome(args[a].default)
             /\ Unmatched(a)
             /\ (IsSome(args[a].environment) => environ[Unwrap(args[a].environment)] = "unset"))
            => Bound(args[a].name, Unwrap(args[a].default))

\* ---------------------------------------------------------------------- C9
\* C9: an Arg with an environment name that no token matches and whose
\* variable is present is bound to its default, or "true", by a successful
\* call, and is not reported by RequiredArgumentMissing.  Stated for a
\* variable whose value env::var can read.
C9_EnvironmentFallback ==
    Finished =>
        \A a \in 1..Len(args) :
            (/\ IsSome(args[a].environment)
             /\ Unmatched(a)
             /\ environ[Unwrap(args[a].environment)] = "unicode")
            => /\ result.kind = "Ok" =>
                    Bound(args[a].name,
                          IF IsSome(args[a].default) THEN Unwrap(args[a].default) ELSE "true")
               /\ \A k \in 1..Len(result.names) : result.names[k] # args[a].name

\* --------------------------------------------------------------------- C10
\* The stream is the path and one value per required positional name.
OnlyRequiredValues ==
    /\ Finished
    /\ N = Len(untagged_args_req) + 1
    /\ \A i \in 2..N : ~check_arg(args, demo_input[i])

ReqKeys == {untagged_args_req[k] : k \in 1..Len(untagged_args_req)}

\* C10 as stated: such a stream returns a mapping whose keys are exactly the
\* required positional names and "path", each name bound to its token.
\* Stated for a call on an App in its freshly built state that declares a
\* required positional name (so that line 334 does not overflow).
C10_ExactlyPositionalKeys ==
    (OnlyRequiredValues /\ FreshEntry /\ Len(untagged_args_req) >= 1) =>
        /\ result.kind = "Ok"
        /\ DOMAIN result.output = ReqKeys \cup {"path"}
        /\ \A k \in 1..Len(untagged_args_req) : Bound(untagged_args_req[k], demo_input[k + 1])

\* The Args the environment pass or the default pass binds: not left
\* completed by an earlier call, with a default or a readable variable.
FilledKeys ==
    {args[a].name : a \in {b \in 1..Len(args) :
        /\ ~entry[b].completed
        /\ \/ IsSome(args[b].default)
           \/ IsSome(args[b].environment) /\ environ[Unwrap(args[b].environment)] = "unicode"}}

\* C10 amended: such a stream returns Ok or RequiredArgumentMissing, or
\* panics when no required name is declared and overflow is checked; the
\* keys of an Ok mapping are the required positional names, "path" and the
\* names the environment and default passes fill.
C10_PositionalAndFilledKeys ==
    OnlyRequiredValues =>
        /\ result.kind \in {"Ok", "RequiredArgumentMissing", "Panic"}
        /\ result.kind = "Panic" => (Len(untagged_args_req) = 0 /\ overflow_checks)
        /\ result.kind = "Ok" =>
              /\ DOMAIN result.output = ReqKeys \cup {"path"} \cup FilledKeys
              /\ Bound("path", demo_input[1])
              /\ \A k \in 1..Len(untagged_args_req) : Bound(untagged_args_req[k], demo_input[k + 1])

C10_Witness ==
    /\ OnlyRequiredValues
    /\ result.kind = "Ok"
    /\ Len(untagged_args_req) = 2
    /\ demo_input[2] # demo_input[3]
    /\ FilledKeys # {}
    /\ FilledKeys \subseteq DOMAIN result.output

\* --------------------------------------------------------------------- C11
\* C11: on an App with no required positional name, line 334 is computed
\* without underflow: a stream with no positional token, read to its end
\* without error, is not aborted and does not fail with TooFewArguments.
C11_NoUnderflowAtEndOfStream ==
    (/\ Finished
     /\ Len(untagged_args_req) = 0
     /\ Exhausted
     /\ Len(Free) = 0)
    => result.kind \notin {"Panic", "TooFewArguments"}

====
